---- MODULE Spec2Model ----
(***************************************************************************)
(* Prudentia risk engine: the Basel III/IV regulatory formulas             *)
(* (src/src/domain/basel_formulas.py), the stress engine                   *)
(* (src/src/engine/stressor.py) and the portfolio aggregation and request  *)
(* handlers of the API (src/src/api/main.py).                              *)
(*                                                                         *)
(* Numbers.  The program computes in IEEE doubles; the model computes in   *)
(* fixed point with 32-bit integers:                                       *)
(*   - probabilities, correlations, lgd, b, K: units of 1e-8 (One = 1.0); *)
(*   - z-scores (norm.ppf values, shock factors): units of 1e-3;          *)
(*   - sensitivity: units of 1e-6;  maturity: units of 1e-2 years;        *)
(*   - maturity adjustment and square roots: units of 1e-4;               *)
(*   - ead, turnover and the aggregates: euros.                           *)
(* A product or quotient is truncated to the unit of its result, the way a *)
(* double is rounded to its 53 bits.                                       *)
(***************************************************************************)
EXTENDS Integers, Sequences, FiniteSets, TLC

VARIABLES
    config,         \* content of config/stress_scenarios.yaml as the engine finds it
    engine,         \* a StressEngine instance: its scenarios, in dict order
    config_reads,   \* how many times the configuration file has been opened
    stress_engine,  \* the module-level stress_engine of main.py
    portfolio,      \* the validated Portfolio of the current request
    resp,           \* the last call and what it returned or raised
    probe,          \* a pair of loans handed to the regulatory formulas
    calc,           \* what the formulas returned for the pair
    calls,          \* how many results of apply_stress were fed back as its input
    threads         \* the requests and calls that run concurrently, each with its locals

vars == <<config, engine, config_reads, stress_engine, portfolio, resp, probe, calc,
          calls, threads>>

----------------------------------------------------------------------------
(* Fixed-point arithmetic *)

One == 10000 * 10000

Abs(x) == IF x < 0 THEN -x ELSE x

Max(a, b) == IF a >= b THEN a ELSE b

Min(a, b) == IF a <= b THEN a ELSE b

\* the product a*b as <<h, l>> with a*b = h * 1e8 + l and 0 <= l < 1e8, formed
\* from 4-digit halves so that nothing exceeds 32 bits (a, b >= 0, one of them
\* below 1e9)
Product(a, b) ==
    LET lo == (a % 10000) * (b % 10000)
        m == (a \div 10000) * (b % 10000) + (a % 10000) * (b \div 10000) + (lo \div 10000)
    IN  <<(a \div 10000) * (b \div 10000) + (m \div 10000),
          (m % 10000) * 10000 + (lo % 10000)>>

\* long division, one decimal digit of l at a time: the quotient of
\* (q*c + r) * 10^n + (the low n digits of l) by c, for 0 <= r < c <= 2e8
Digit(l, n) == (l \div (10 ^ (n - 1))) % 10

RECURSIVE DivDigits(_, _, _, _, _)
DivDigits(q, r, l, c, n) ==
    IF n = 0 THEN q
    ELSE DivDigits((q * 10) + ((r * 10 + Digit(l, n)) \div c),
                   (r * 10 + Digit(l, n)) % c, l, c, n - 1)

\* floor((p[1] * 1e8 + p[2]) / c)
LongDiv(p, c) ==
    IF One % c = 0 THEN p[1] * (One \div c) + (p[2] \div c)
    ELSE DivDigits(p[1] \div c, p[1] % c, p[2], c, 8)

\* floor(a*b/c) for a, b >= 0, c > 0
MulDiv(a, b, c) ==
    IF a = 0 \/ b = 0 THEN 0
    ELSE IF b <= 2147483647 \div a THEN (a * b) \div c
    ELSE LongDiv(Product(a, b), c)

\* x * x for x >= 0 in units of 1e-8
Square(x) == MulDiv(x, x, One)

\* a*b/c truncated toward zero, any signs of a and b, c > 0
SMulDiv(a, b, c) ==
    IF (a < 0) # (b < 0) THEN -MulDiv(Abs(a), Abs(b), c)
    ELSE MulDiv(Abs(a), Abs(b), c)

\* floor(sqrt(n)) for 0 <= n <= 2e9: the hundreds first, then the units
ISqrtFrom(n, h) ==
    CHOOSE r \in (100 * h)..(100 * h + 99) : r * r <= n /\ (r + 1) * (r + 1) > n

ISqrt(n) ==
    ISqrtFrom(n, CHOOSE h \in 0..447 : (100 * h) * (100 * h) <= n
                                        /\ (100 * h + 100) * (100 * h + 100) > n)

\* np.sqrt of a value in units of 1e-8, in units of 1e-4
Sqrt(x) == ISqrt(x)

\* e^-n for n = 0..19, in units of 1e-8
ExpTab == <<100000000, 36787944, 13533528, 4978707, 1831564, 673795, 247875,
            91188, 33546, 12341, 4540, 1670, 614, 226, 83, 31, 11, 4, 2, 1>>

\* e^-(k/16) for k = 0..15, in units of 1e-8
ExpTab16 == <<100000000, 93941306, 88249690, 82902912, 77880078, 73161563, 68728928,
              64564853, 60653066, 56978282, 53526143, 50283158, 47236655, 44374731,
              41686202, 39160563>>

\* e^-g for 0 <= g < 1/16: 1 - g + g^2/2 - g^3/6 + g^4/24 - g^5/120
ExpSmall(g) ==
    LET g2 == MulDiv(g, g, One)
        g3 == MulDiv(g2, g, One)
        g4 == MulDiv(g3, g, One)
        g5 == MulDiv(g4, g, One)
    IN  One - g + (g2 \div 2) - (g3 \div 6) + (g4 \div 24) - (g5 \div 120)

\* np.exp(-x) for x >= 0 in units of 1e-8 (x < 21.4); below 1e-8 it is 0
ExpNeg(x) ==
    IF x >= 20 * One THEN 0
    ELSE MulDiv(MulDiv(ExpTab[(x \div One) + 1], ExpTab16[((x % One) \div 6250000) + 1], One),
                ExpSmall(x % 6250000), One)

\* ln(k/32) for k = 16..32, in units of 1e-8
LnTab == <<-69314718, -63252256, -57536414, -52129692, -47000363, -42121347, -37469345,
           -33024169, -28768207, -24686008, -20763936, -16989904, -13353139, -9844007,
           -6453852, -3174870, 0>>

\* 2 * atanh(y) = 2 * (y + y^3/3 + y^5/5) for 0 <= y < 1/33
Atanh2(y, y2) ==
    2 * (y + (MulDiv(y, y2, One) \div 3) + (MulDiv(MulDiv(y, y2, One), y2, One) \div 5))

\* ln(1 + d/s) for 0 <= d < s/16, as 2 * atanh(d / (2s + d))
Ln1p(d, s) == Atanh2(MulDiv(d, One, 2 * s + d), Square(MulDiv(d, One, 2 * s + d)))

\* ln(m) for One/2 < m <= One: ln(k/32) + ln(m / (k/32)) with k = floor(32 m)
LnMantissa(m) == LnTab[(m \div 3125000) - 15] + Ln1p(m % 3125000, m - (m % 3125000))

\* how many times x doubles before it exceeds One/2 (0 < x <= One)
Doublings(x) == CHOOSE k \in 0..27 : (2 ^ k) * x <= One /\ (2 ^ (k + 1)) * x > One

LnShifted(x, k) == LnMantissa((2 ^ k) * x) - k * 69314718

\* np.log(x) for 0 < x <= One, in units of 1e-8 (ln 2 = 0.69314718)
Ln(x) == LnShifted(x, Doublings(x))

\* 1e8 * (1 - Phi(z)) at z = 0.00, 0.01, ..., 5.74 (entry i+1 is z = i/100),
\* rounded to the nearest unit; beyond the table the tail is below 1e-8.
QTab == <<
    50000000, 49601064, 49202169, 48803353, 48404656, 48006119, 47607782, 47209683, 46811863, 46414361,
    46017216, 45620469, 45224157, 44828321, 44433000, 44038231, 43644054, 43250507, 42857628, 42465457,
    42074029, 41683384, 41293558, 40904588, 40516513, 40129367, 39743189, 39358013, 38973875, 38590812,
    38208858, 37828048, 37448417, 37069998, 36692826, 36316935, 35942357, 35569125, 35197271, 34826827,
    34457826, 34090297, 33724273, 33359782, 32996855, 32635522, 32275811, 31917751, 31561370, 31206695,
    30853754, 30502573, 30153179, 29805597, 29459852, 29115969, 28773972, 28433885, 28095731, 27759532,
    27425312, 27093090, 26762889, 26434729, 26108630, 25784611, 25462691, 25142890, 24825223, 24509709,
    24196365, 23885207, 23576250, 23269509, 22965000, 22662735, 22362729, 22064995, 21769544, 21476388,
    21185540, 20897009, 20610805, 20326939, 20045419, 19766254, 19489452, 19215020, 18942965, 18673294,
    18406013, 18141125, 17878638, 17618554, 17360878, 17105613, 16852761, 16602325, 16354306, 16108706,
    15865525, 15624765, 15386423, 15150500, 14916995, 14685906, 14457230, 14230965, 14007109, 13785657,
    13566606, 13349951, 13135688, 12923811, 12714315, 12507194, 12302440, 12100048, 11900011, 11702320,
    11506967, 11313945, 11123244, 10934855, 10748770, 10564977, 10383468, 10204232, 10027257, 9852533,
    9680048, 9509792, 9341751, 9175914, 9012267, 8850799, 8691496, 8534345, 8379332, 8226444,
    8075666, 7926984, 7780384, 7635851, 7493370, 7352926, 7214504, 7078088, 6943662, 6811212,
    6680720, 6552171, 6425549, 6300836, 6178018, 6057076, 5937994, 5820756, 5705343, 5591740,
    5479929, 5369893, 5261614, 5155075, 5050258, 4947147, 4845723, 4745968, 4647866, 4551398,
    4456546, 4363294, 4271622, 4181514, 4092951, 4005916, 3920390, 3836357, 3753798, 3672696,
    3593032, 3514789, 3437950, 3362497, 3288412, 3215677, 3144276, 3074191, 3005404, 2937898,
    2871656, 2806661, 2742895, 2680342, 2618984, 2558806, 2499790, 2441919, 2385176, 2329547,
    2275013, 2221559, 2169169, 2117827, 2067516, 2018222, 1969927, 1922617, 1876277, 1830890,
    1786442, 1742918, 1700302, 1658581, 1617738, 1577761, 1538633, 1500342, 1462873, 1426212,
    1390345, 1355258, 1320938, 1287372, 1254546, 1222447, 1191063, 1160379, 1130384, 1101066,
    1072411, 1044408, 1017044, 990308, 964187, 938671, 913747, 889404, 865632, 842419,
    819754, 797626, 776025, 754941, 734363, 714281, 694685, 675565, 656912, 638715,
    620967, 603656, 586774, 570313, 554262, 538615, 523361, 508493, 494002, 479880,
    466119, 452711, 439649, 426924, 414530, 402459, 390703, 379256, 368111, 357260,
    346697, 336416, 326410, 316672, 307196, 297976, 289007, 280281, 271794, 263540,
    255513, 247707, 240118, 232740, 225568, 218596, 211821, 205236, 198838, 192621,
    186581, 180714, 175016, 169481, 164106, 158887, 153820, 148900, 144124, 139489,
    134990, 130624, 126387, 122277, 118289, 114421, 110668, 107029, 103500, 100078,
    96760, 93544, 90426, 87403, 84474, 81635, 78885, 76219, 73638, 71136,
    68714, 66367, 64095, 61895, 59765, 57703, 55706, 53774, 51904, 50094,
    48342, 46648, 45009, 43423, 41889, 40406, 38971, 37584, 36243, 34946,
    33693, 32481, 31311, 30179, 29086, 28029, 27009, 26023, 25071, 24151,
    23263, 22405, 21577, 20778, 20006, 19262, 18543, 17849, 17180, 16534,
    15911, 15310, 14730, 14171, 13632, 13112, 12611, 12128, 11662, 11213,
    10780, 10363, 9961, 9574, 9201, 8842, 8496, 8162, 7841, 7532,
    7235, 6948, 6673, 6407, 6152, 5906, 5669, 5442, 5223, 5012,
    4810, 4615, 4427, 4247, 4074, 3908, 3747, 3594, 3446, 3304,
    3167, 3036, 2910, 2789, 2673, 2561, 2454, 2351, 2252, 2157,
    2066, 1978, 1894, 1814, 1737, 1662, 1591, 1523, 1458, 1395,
    1335, 1277, 1222, 1168, 1118, 1069, 1022, 977, 934, 893,
    854, 816, 780, 746, 712, 681, 650, 621, 593, 567,
    541, 517, 494, 471, 450, 429, 410, 391, 373, 356,
    340, 324, 309, 295, 281, 268, 256, 244, 232, 222,
    211, 201, 192, 183, 174, 166, 158, 151, 143, 137,
    130, 124, 118, 112, 107, 102, 97, 92, 88, 83,
    79, 75, 72, 68, 65, 62, 59, 56, 53, 50,
    48, 46, 43, 41, 39, 37, 35, 33, 32, 30,
    29, 27, 26, 25, 23, 22, 21, 20, 19, 18,
    17, 16, 15, 14, 14, 13, 12, 12, 11, 11,
    10, 9, 9, 8, 8, 8, 7, 7, 6, 6,
    6, 5, 5, 5, 5, 4, 4, 4, 4, 4,
    3, 3, 3, 3, 3, 3, 2, 2, 2, 2,
    2, 2, 2, 2, 2, 1, 1, 1, 1, 1,
    1, 1, 1, 1, 1, 1, 1, 1, 1, 1,
    1, 1, 1, 1, 0
>>

\* the upper tail 1 - Phi(z) for z >= 0 in units of 1e-3, interpolated linearly
UpperTail(z) ==
    LET i == z \div 10
        f == z % 10
    IN  IF i + 1 >= Len(QTab) THEN 0
        ELSE QTab[i + 1] - ((QTab[i + 1] - QTab[i + 2]) * f) \div 10

\* scipy.stats.norm.cdf: z in units of 1e-3, result in units of 1e-8
NormCdf(z) == IF z >= 0 THEN One - UpperTail(z) ELSE UpperTail(-z)

\* the largest z among lo, lo + step, ..., lo + (n-1)*step with NormCdf(z) <= p,
\* given NormCdf(lo) <= p
LastBelow(p, lo, step, n) ==
    lo + step * (CHOOSE k \in 0..(n - 1) :
                    /\ NormCdf(lo + step * k) <= p
                    /\ (k = n - 1 \/ NormCdf(lo + step * (k + 1)) > p))

\* scipy.stats.norm.ppf for 0 < p < One: the z whose cdf is p, to 1e-3; the
\* largest z in [-5.750, 5.750) with NormCdf(z) <= p
NormPpf(p) == LastBelow(p, LastBelow(p, LastBelow(p, -5750, 500, 23), 25, 20), 1, 25)

----------------------------------------------------------------------------
(* src/src/domain/entities.py *)

ExposureType == {"CORPORATE", "RETAIL", "SME", "FINANCIAL_INSTITUTION"}

\* A Loan is a record [id, pd, lgd, ead, maturity, exposure_type, turnover];
\* turnover is Optional[float]: <<>> is None, <<t>> is the value t.  pd is a
\* float: pd_digits holds its next five decimal digits after the eighth, so that
\* the loan's pd is pd * 1e-8 + pd_digits * 1e-13.
Loan(id, pd, lgd, ead, maturity, exposure_type, turnover) ==
    [id |-> id, pd |-> pd, pd_digits |-> 0, lgd |-> lgd, ead |-> ead, maturity |-> maturity,
     exposure_type |-> exposure_type, turnover |-> turnover]

\* the loan with pd = (pd * 100000 + pd_digits) * 1e-13
WithPd(loan, pd, pd_digits) == [loan EXCEPT !.pd = pd, !.pd_digits = pd_digits]

\* The Field constraints of Loan, which pydantic checks when a Loan is built
LoanValid(l) ==
    /\ l.pd >= 0 /\ l.pd <= One
    /\ l.lgd >= 0 /\ l.lgd <= One
    /\ l.ead > 0
    /\ l.maturity > 0
    /\ l.exposure_type \in ExposureType
    /\ (l.turnover # <<>> => l.turnover[1] >= 0)

RECURSIVE SumEad(_)
SumEad(loans) == IF loans = <<>> THEN 0 ELSE Head(loans).ead + SumEad(Tail(loans))

\* Portfolio.total_exposure
total_exposure(loans) == SumEad(loans)

----------------------------------------------------------------------------
(* src/src/domain/basel_formulas.py *)

CONFIDENCE_LEVEL_IRB == 99900000

\* np.exp(-50.0 * pd) for pd in units of 1e-8
ExpNeg50(pd) == IF pd >= 2 * (One \div 5) THEN 0 ELSE ExpNeg(50 * pd)

\* k_factor = numerator / denominator
k_factor(numerator, denominator) == MulDiv(numerator, One, denominator)

\* the interpolation with its two bounds exchanged
r_corporate_swapped(k) == MulDiv(24000000, k, One) + MulDiv(12000000, One - k, One)

\* the interpolation between 1.2 and 2.4
r_corporate_tenfold(k) == MulDiv(120000000, k, One) + MulDiv(240000000, One - k, One)

\* r = 0.12 * k_factor + 0.24 * (1.0 - k_factor)
r_corporate(k) == MulDiv(12000000, k, One) + MulDiv(24000000, One - k, One)

\* turnover_capped = min(max(turnover, 5e6), 50e6)
turnover_capped(turnover) == Min(Max(turnover, 5000000), 50000000)

\* sme_adjustment = 0.04 * (1.0 - (turnover_capped - 5e6) / 45e6)
sme_adjustment(capped) ==
    MulDiv(4000000, One - MulDiv(capped - 5000000, One, 45000000), One)

\* an SME branch that adds the adjustment
r_adjusted_upward(loan, r) ==
    IF loan.exposure_type = "SME" /\ loan.turnover # <<>>
    THEN r + sme_adjustment(turnover_capped(loan.turnover[1]))
    ELSE r

\* the SME branch: r -= sme_adjustment when the loan is SME with a turnover
r_adjusted(loan, r) ==
    IF loan.exposure_type = "SME" /\ loan.turnover # <<>>
    THEN r - sme_adjustment(turnover_capped(loan.turnover[1]))
    ELSE r

\* in units of 1e-8; pd = max(loan.pd, 1e-7)
calculate_asset_correlation(loan) ==
    Max(r_adjusted(loan, r_corporate(k_factor(One - ExpNeg50(Max(loan.pd, 10)),
                                              One - ExpNeg50(One)))),
        0)

\* np.log(pd) of pd = (pd * 100000 + pd_digits) * 1e-13; the digits count where
\* b is near 2/3, and pd * 100000 fits the integers for pd below 2e-4
log_pd(pd, pd_digits) ==
    IF pd_digits = 0 \/ pd >= 20000 THEN Ln(pd)
    ELSE Ln(pd * 100000 + pd_digits) - 1151292546

\* x ** 2 rounded to the nearest unit of 1e-8, as the float power is rounded to
\* the nearest double
SquareNearest(x) == (MulDiv(x, x, 10000000) + 5) \div 10

\* b = (0.11852 - 0.05478 * np.log(pd)) ** 2
b_factor(pd, pd_digits) ==
    SquareNearest(11852000 - SMulDiv(5478000, log_pd(pd, pd_digits), One))

\* ma = num / den: [raised, value], value in units of 1e-4; raised is the
\* ZeroDivisionError of the float division when den is exactly 0.0
Quotient(num, den) ==
    IF den = 0 THEN [raised |-> TRUE, value |-> 0]
    ELSE [raised |-> FALSE,
          value |-> IF den > 0 THEN SMulDiv(num, 10000, den) ELSE -SMulDiv(num, 10000, -den)]

\* ma = (1.0 + (loan.maturity - 2.5) * b) / (1.0 - 1.5 * b)
ma_of(maturity, b) == Quotient(One + SMulDiv(maturity - 250, b, 100), One - MulDiv(b, 3, 2))

\* [raised, value]; pd = max(pd, 1e-7)
maturity_adjustment(loan, pd) == ma_of(loan.maturity, b_factor(Max(pd, 10), loan.pd_digits))

\* conditional_pd_term = (pd_z + np.sqrt(rho) * systemic_shock) / np.sqrt(1.0 - rho)
conditional_pd_term(pd_z, rho, systemic_shock) ==
    SMulDiv(pd_z + MulDiv(Sqrt(rho), systemic_shock, 10000), 10000, Sqrt(One - rho))

\* a raw capital that deducts the expected default rate twice
capital_raw_less_twice_pd(lgd, conditional_pd, pd) == SMulDiv(lgd, conditional_pd - 2 * pd, One)

\* capital_raw = lgd * (conditional_pd - pd)
capital_raw(lgd, conditional_pd, pd) == SMulDiv(lgd, conditional_pd - pd, One)

\* k = capital_raw * ma; return max(k, 0.0)
capital_floor(raw, ma) ==
    IF ma.raised THEN [raised |-> TRUE, value |-> 0]
    ELSE [raised |-> FALSE, value |-> Max(SMulDiv(raw, ma.value, 10000), 0)]

\* a capital formula that charges the full lgd on a loan with pd >= 1
vasicek_lgd_at_default(loan) ==
    IF loan.pd = 0 THEN [raised |-> FALSE, value |-> 0]
    ELSE [raised |-> FALSE, value |-> loan.lgd]

\* [raised, value]: the capital requirement K in units of 1e-8
vasicek_model_capital(loan) ==
    IF loan.pd = 0 THEN [raised |-> FALSE, value |-> 0]
    ELSE IF loan.pd >= One THEN [raised |-> FALSE, value |-> 0]
    ELSE capital_floor(
             capital_raw(loan.lgd,
                         NormCdf(conditional_pd_term(NormPpf(loan.pd),
                                                     calculate_asset_correlation(loan),
                                                     NormPpf(CONFIDENCE_LEVEL_IRB))),
                         loan.pd),
             maturity_adjustment(loan, loan.pd))

\* k * 12.5 * loan.ead, in euros
rwa_of(k, ead) ==
    IF k.raised THEN k
    ELSE [raised |-> FALSE, value |-> MulDiv(MulDiv(k.value, 125, 100), ead, 10000000)]

\* [raised, value]: RWA = K * 12.5 * EAD
calculate_rwa(loan) == rwa_of(vasicek_model_capital(loan), loan.ead)

\* EL = PD * LGD * EAD, in euros
calculate_expected_loss(loan) == MulDiv(MulDiv(loan.pd, loan.lgd, One), loan.ead, One)

----------------------------------------------------------------------------
(* src/src/engine/stressor.py *)

\* gdp_growth and unemployment_rate in units of 1e-3, shock_factor in units of 1e-3
MacroScenario(name, description, gdp_growth, unemployment_rate, shock_factor) ==
    [name |-> name, description |-> description, gdp_growth |-> gdp_growth,
     unemployment_rate |-> unemployment_rate, shock_factor |-> shock_factor]

\* the dict default_scenarios, in insertion order
default_scenarios ==
    << MacroScenario("baseline", "Default", 15, 70, 0),
       MacroScenario("adverse", "Adverse", -10, 90, 1500),
       MacroScenario("severely_adverse", "Severe", -50, 120, 3000) >>

ScenarioFields == {"description", "gdp_growth", "unemployment_rate", "shock_factor"}

\* MacroScenario(name=k, **v) succeeds: v is a mapping that gives every field of
\* the model with a value of its type and no second value for name
EntryValid(e) ==
    /\ e.is_mapping
    /\ ScenarioFields \subseteq e.fields
    /\ "name" \notin e.fields
    /\ e.well_typed

\* The try block of _load_scenarios raises: open() fails, yaml.safe_load fails,
\* data['scenarios'] fails (data is None, a list, or has no such key),
\* .items() fails (the value is no mapping), or an entry is rejected.
LoadRaises(cfg) ==
    \/ ~cfg.readable
    \/ cfg.kind \in {"invalid_yaml", "null_document", "list_document", "no_scenarios_key",
                     "scenarios_null", "scenarios_list", "scenarios_scalar"}
    \/ \E i \in 1..Len(cfg.entries) : ~EntryValid(cfg.entries[i])

\* StressEngine._load_scenarios: the catalog as a sequence in dict order
load_scenarios(cfg) ==
    IF ~cfg.exists THEN default_scenarios
    ELSE IF LoadRaises(cfg) THEN default_scenarios
    ELSE [i \in 1..Len(cfg.entries) |->
            MacroScenario(cfg.entries[i].key, cfg.entries[i].description,
                          cfg.entries[i].gdp_growth, cfg.entries[i].unemployment_rate,
                          cfg.entries[i].shock_factor)]

ScenarioNames(scenarios) == {scenarios[i].name : i \in 1..Len(scenarios)}

\* self.scenarios[name] for a name that is a key
Lookup(scenarios, name) ==
    scenarios[CHOOSE i \in 1..Len(scenarios) : scenarios[i].name = name]

\* apply_stress raises: for a name that is no key, list(self.scenarios.values())[0]
\* is evaluated as the default of .get and is an IndexError on an empty catalog
ResolveRaises(scenarios, scenario_name) ==
    scenario_name \notin ScenarioNames(scenarios) /\ scenarios = <<>>

\* the scenario apply_stress works with (when ResolveRaises is false)
Resolve(scenarios, scenario_name) ==
    IF scenario_name \notin ScenarioNames(scenarios)
    THEN IF "adverse" \in ScenarioNames(scenarios) THEN Lookup(scenarios, "adverse")
         ELSE scenarios[1]
    ELSE Lookup(scenarios, scenario_name)

\* a shift added to the pd itself, not to its probit
StressedPdLinear(pd, shock_factor, sensitivity) ==
    pd + 100000 * SMulDiv(shock_factor, sensitivity, 1000000)

\* a probit shift applied with the wrong sign
StressedPdShiftedDown(pd, shock_factor, sensitivity) ==
    NormCdf(NormPpf(Max(Min(pd, 99900000), 1000)) - SMulDiv(shock_factor, sensitivity, 1000000))

\* the probit shift of one pd; sensitivity in units of 1e-6
\* pd_safe = max(min(loan.pd, 0.999), 1e-5); z_score = norm.ppf(pd_safe);
\* shifted_z = z_score + shock_factor * sensitivity; stressed_pd = norm.cdf(shifted_z)
StressedPd(pd, shock_factor, sensitivity) ==
    NormCdf(NormPpf(Max(Min(pd, 99900000), 1000)) + SMulDiv(shock_factor, sensitivity, 1000000))

\* a stress that writes the stressed pd and scales the exposure by it
StressLoanScalingEad(loan, shock_factor, sensitivity) ==
    [WithPd(loan, StressedPd(loan.pd, shock_factor, sensitivity), 0)
        EXCEPT !.ead = 1 + MulDiv(loan.ead, StressedPd(loan.pd, shock_factor, sensitivity), One)]

\* stressed_loan = loan.model_copy(); stressed_loan.pd = stressed_pd
StressLoan(loan, shock_factor, sensitivity) ==
    WithPd(loan, StressedPd(loan.pd, shock_factor, sensitivity), 0)

\* the body of apply_stress once the scenario is resolved
StressWith(scenario, loans, sensitivity) ==
    IF scenario.shock_factor = 0 THEN [raised |-> FALSE, loans |-> loans]
    ELSE [raised |-> FALSE,
          loans |-> [i \in 1..Len(loans) |->
                       StressLoan(loans[i], scenario.shock_factor, sensitivity)]]

\* StressEngine.apply_stress: [raised, loans]
apply_stress(scenarios, loans, scenario_name, sensitivity) ==
    IF ResolveRaises(scenarios, scenario_name) THEN [raised |-> TRUE, loans |-> <<>>]
    ELSE StressWith(Resolve(scenarios, scenario_name), loans, sensitivity)

----------------------------------------------------------------------------
(* src/src/api/main.py *)

\* AssessmentResult, with raised for an exception that leaves the helper
AssessmentResult(total_exposure_, total_expected_loss, total_rwa, capital_requirement, average_pd) ==
    [raised |-> FALSE, total_exposure |-> total_exposure_,
     total_expected_loss |-> total_expected_loss, total_rwa |-> total_rwa,
     capital_requirement |-> capital_requirement, average_pd |-> average_pd]

ZeroResult == AssessmentResult(0, 0, 0, 0, 0)

RaisedResult == [ZeroResult EXCEPT !.raised = TRUE]

RECURSIVE SumEl(_)
SumEl(loans) ==
    IF loans = <<>> THEN 0 ELSE calculate_expected_loss(Head(loans)) + SumEl(Tail(loans))

RECURSIVE SumPd(_)
SumPd(loans) == IF loans = <<>> THEN 0 ELSE Head(loans).pd + SumPd(Tail(loans))

\* the values calculate_rwa returns for the loans, in order
RwaList(loans) == [i \in 1..Len(loans) |-> calculate_rwa(loans[i])]

RECURSIVE SumValues(_)
SumValues(rs) == IF rs = <<>> THEN 0 ELSE Head(rs).value + SumValues(Tail(rs))

\* capital_requirement = total_rwa * 0.08
CapitalOf(total_rwa) == MulDiv(total_rwa, 8, 100)

\* avg_pd = np.mean(pds) if pds else 0.0
MeanPd(loans) == IF Len(loans) > 0 THEN SumPd(loans) \div Len(loans) ELSE 0

\* the result once total_rwa is summed
ResultOf(total_ead, loans, total_rwa) ==
    AssessmentResult(total_ead, SumEl(loans), total_rwa, CapitalOf(total_rwa), MeanPd(loans))

\* the part of compute_portfolio_metrics after the quick exit; an exception of
\* calculate_rwa leaves the helper
MetricsOf(total_ead, loans, rwas) ==
    IF \E i \in 1..Len(rwas) : rwas[i].raised THEN RaisedResult
    ELSE ResultOf(total_ead, loans, SumValues(rwas))

\* the aggregation without its quick exit and with the mean taken of an empty
\* list: the division by the number of loans fails on an empty portfolio
metrics_without_quick_exit(loans) ==
    IF Len(loans) = 0 THEN RaisedResult
    ELSE MetricsOf(total_exposure(loans), loans, RwaList(loans))

\* total_ead = portfolio.total_exposure; the quick exit when it is 0
compute_portfolio_metrics(loans) ==
    IF total_exposure(loans) = 0 THEN ZeroResult
    ELSE MetricsOf(total_exposure(loans), loans, RwaList(loans))

\* What a call or a request left: the call, how it ended, and what it returned.
Response(op, scenario_name, sensitivity, status, loans, metrics, stressed_metrics, capital_impact) ==
    [op |-> op, scenario_name |-> scenario_name, sensitivity |-> sensitivity,
     status |-> status, loans |-> loans, metrics |-> metrics,
     stressed_metrics |-> stressed_metrics, capital_impact |-> capital_impact]

NoResponse == Response("none", "", 0, "", <<>>, ZeroResult, ZeroResult, 0)

\* the 200 response of /assess/regulatory; an exception leaving the handler is a 500
AssessResponse(m) ==
    IF m.raised THEN Response("assess", "", 0, "HTTP_500", <<>>, ZeroResult, ZeroResult, 0)
    ELSE Response("assess", "", 0, "HTTP_200", <<>>, m, ZeroResult, 0)

\* POST /assess/regulatory
assess_regulatory_capital(loans) == AssessResponse(compute_portfolio_metrics(loans))

\* impact = stressed_metrics.capital_requirement - baseline_metrics.capital_requirement
\* and the StressTestResult.  Nothing the try block calls raises a ValueError, so
\* there is no 400 response; an IndexError or a ZeroDivisionError leaves the
\* handler and is a 500 response.
StressTestResult(scenario, baseline_metrics, stressed_metrics) ==
    IF baseline_metrics.raised \/ stressed_metrics.raised
    THEN Response("stress_test", scenario, 0, "HTTP_500", <<>>, ZeroResult, ZeroResult, 0)
    ELSE Response("stress_test", scenario, 0, "HTTP_200", <<>>,
                  baseline_metrics, stressed_metrics,
                  stressed_metrics.capital_requirement - baseline_metrics.capital_requirement)

\* stressed_metrics = compute_portfolio_metrics(stressed_pf)
StressedMetrics(stressed_pf) ==
    IF stressed_pf.raised THEN RaisedResult ELSE compute_portfolio_metrics(stressed_pf.loans)

\* POST /assess/stress-test.  se is the module-level stress_engine: <<>> is None.
run_stress_test(se, loans, scenario) ==
    IF se = <<>>
    THEN Response("stress_test", scenario, 0, "HTTP_500", <<>>, ZeroResult, ZeroResult, 0)
    ELSE StressTestResult(scenario, compute_portfolio_metrics(loans),
             StressedMetrics(apply_stress(se[1].scenarios, loans, scenario, 1000000)))

\* what a direct call of apply_stress left
StressResponse(scenario_name, sensitivity, r) ==
    Response("apply_stress", scenario_name, sensitivity,
             IF r.raised THEN "IndexError" ELSE "ok", r.loans, ZeroResult, ZeroResult, 0)

----------------------------------------------------------------------------
(* Inputs *)

MaxLoans == 2

\* pd of the loans of a request: 0, the 1e-5 clamp, 0.02, the 0.999 clamp, 0.9995, 1
PortfolioPds == {0, 1000, 2000000, 99900000, 99950000, One}

\* The loan at position i of a request, with pd given: the fixtures of
\* tests/unit/test_basel_formulas.py, then a retail loan
LoanAt(i, pd) ==
    CASE i = 1 -> Loan("C001", pd, 45000000, 1000000, 250, "CORPORATE", <<100000000>>)
      [] i = 2 -> Loan("SME001", pd, 45000000, 500000, 400, "SME", <<10000000>>)
      [] OTHER -> Loan("R001", pd, One, 250000, 100, "RETAIL", <<>>)

\* the loan at position i with pd = 2.9272443e-6, where maturity_adjustment
\* divides by 0.0
SingularLoanAt(i) == WithPd(LoanAt(i, 292), 292, 72443)

Portfolios ==
    UNION {{[i \in 1..n |-> LoanAt(i, pds[i])] : pds \in [1..n -> PortfolioPds]} : n \in 0..MaxLoans}
    \cup {<<SingularLoanAt(1)>>, <<LoanAt(1, 2000000), SingularLoanAt(2)>>}

ScenarioEntry(key, is_mapping, fields, well_typed, shock_factor) ==
    [key |-> key, is_mapping |-> is_mapping, fields |-> fields, well_typed |-> well_typed,
     description |-> key, gdp_growth |-> 0, unemployment_rate |-> 80,
     shock_factor |-> shock_factor]

GoodEntry(key, shock_factor) == ScenarioEntry(key, TRUE, ScenarioFields, TRUE, shock_factor)

ConfigFile(exists, readable, kind, entries) ==
    [exists |-> exists, readable |-> readable, kind |-> kind, entries |-> entries]

\* What config/stress_scenarios.yaml may hold
Configs ==
    { ConfigFile(FALSE, FALSE, "absent", <<>>),
      ConfigFile(TRUE, FALSE, "unreadable", <<>>),
      ConfigFile(TRUE, TRUE, "invalid_yaml", <<>>),
      ConfigFile(TRUE, TRUE, "null_document", <<>>),
      ConfigFile(TRUE, TRUE, "list_document", <<>>),
      ConfigFile(TRUE, TRUE, "no_scenarios_key", <<>>),
      ConfigFile(TRUE, TRUE, "scenarios_null", <<>>),
      ConfigFile(TRUE, TRUE, "scenarios_list", <<>>),
      ConfigFile(TRUE, TRUE, "scenarios_scalar", <<>>),
      \* scenarios: {}
      ConfigFile(TRUE, TRUE, "scenarios_mapping", <<>>),
      \* an entry that is a scalar, lacks shock_factor, or gives it as a word
      ConfigFile(TRUE, TRUE, "scenarios_mapping",
                 <<GoodEntry("baseline", 0), ScenarioEntry("adverse", FALSE, {}, TRUE, 0)>>),
      ConfigFile(TRUE, TRUE, "scenarios_mapping",
                 <<GoodEntry("baseline", 0),
                   ScenarioEntry("adverse", TRUE, ScenarioFields \ {"shock_factor"}, TRUE, 0)>>),
      ConfigFile(TRUE, TRUE, "scenarios_mapping",
                 <<ScenarioEntry("adverse", TRUE, ScenarioFields, FALSE, 0)>>),
      \* well-formed catalogs
      ConfigFile(TRUE, TRUE, "scenarios_mapping",
                 <<GoodEntry("baseline", 0), GoodEntry("mild", 500), GoodEntry("adverse", 2000),
                   GoodEntry("severely_adverse", 4000)>>),
      ConfigFile(TRUE, TRUE, "scenarios_mapping",
                 <<GoodEntry("mild", 500), GoodEntry("recovery", -1000)>>) }

ScenarioNameInputs == {"baseline", "adverse", "severely_adverse", "mild", "recovery", "nonexistent"}

\* sensitivity: -1.0, 0, 0.1, 1.0 (the default), 2.0
SensitivityInputs == {-1000000, 0, 100000, 1000000, 2000000}

----------------------------------------------------------------------------
(* The program: an engine built from the configuration, and calls on a portfolio *)

Init ==
    /\ config \in Configs
    /\ engine = [constructed |-> FALSE, scenarios |-> <<>>]
    /\ config_reads = 0
    /\ stress_engine = <<>>
    /\ portfolio \in Portfolios
    /\ resp = NoResponse
    /\ probe = <<>>
    /\ calc = [fn |-> "none", out |-> <<>>]
    /\ calls = 0
    /\ threads = <<>>

\* StressEngine.__init__
StressEngineInit ==
    /\ ~engine.constructed
    /\ resp.op = "none"
    /\ engine' = [constructed |-> TRUE, scenarios |-> load_scenarios(config)]
    /\ config_reads' = IF config.exists THEN config_reads + 1 ELSE config_reads
    /\ UNCHANGED <<config, stress_engine, portfolio, resp, probe, calc, calls, threads>>

\* an apply_stress that loads the catalog again before it resolves the name
ApplyStressReloading ==
    /\ engine.constructed
    /\ resp.op = "none"
    /\ engine' = [constructed |-> TRUE, scenarios |-> load_scenarios(config)]
    /\ config_reads' = IF config.exists THEN config_reads + 1 ELSE config_reads
    /\ \E scenario_name \in ScenarioNameInputs, sensitivity \in SensitivityInputs :
         resp' = StressResponse(scenario_name, sensitivity,
                     apply_stress(engine'.scenarios, portfolio, scenario_name, sensitivity))
    /\ UNCHANGED <<config, stress_engine, portfolio, probe, calc, calls, threads>>

\* engine.apply_stress(portfolio, scenario_name, sensitivity)
ApplyStress ==
    /\ engine.constructed
    /\ resp.op = "none"
    /\ \E scenario_name \in ScenarioNameInputs, sensitivity \in SensitivityInputs :
         resp' = StressResponse(scenario_name, sensitivity,
                     apply_stress(engine.scenarios, portfolio, scenario_name, sensitivity))
    /\ UNCHANGED <<config, engine, config_reads, stress_engine, portfolio, probe, calc, calls, threads>>

\* a POST /assess/regulatory request with the portfolio as its body
AssessRegulatory ==
    /\ resp.op = "none"
    /\ resp' = assess_regulatory_capital(portfolio)
    /\ UNCHANGED <<config, engine, config_reads, stress_engine, portfolio, probe, calc, calls, threads>>

\* a POST /assess/stress-test?scenario=... request with the portfolio as its body
RunStressTest ==
    /\ resp.op = "none"
    /\ \E scenario \in ScenarioNameInputs :
         resp' = run_stress_test(stress_engine, portfolio, scenario)
    /\ UNCHANGED <<config, engine, config_reads, stress_engine, portfolio, probe, calc, calls, threads>>

\* the caller takes the result; the next call gets the same portfolio
Return ==
    /\ resp.op # "none"
    /\ resp' = NoResponse
    /\ UNCHANGED <<config, engine, config_reads, stress_engine, portfolio, probe, calc, calls, threads>>

Next ==
    \/ StressEngineInit
    \/ ApplyStress
    \/ AssessRegulatory
    \/ RunStressTest
    \/ Return

Spec == Init /\ [][Next]_vars

----------------------------------------------------------------------------
(* The regulatory formulas on their own: a pair of loans is drawn, and each *)
(* formula is applied to both                                               *)

\* pd of a probed loan: 0, below and at the 1e-7 floor, 1e-6, 2.94e-6 (where
\* 1 - 1.5b is near 0), 1e-5, 1e-4, 1e-3, 0.005, 0.02, 0.05, 0.15, 0.2, 0.25,
\* 0.8, 0.9, 0.999, 1
ProbePds == {0, 5, 10, 100, 294, 1000, 10000, 100000, 500000, 2000000, 5000000,
             15000000, 20000000, 25000000, 80000000, 90000000, 99900000, One}

ProbeLgds == {0, 45000000, One}

\* maturity: 1, 2.5, 5 and 20 years
ProbeMaturities == {100, 250, 500, 2000}

\* exposure type and turnover
ProbeKinds == { <<"CORPORATE", <<>>>>, <<"CORPORATE", <<10000000>>>>, <<"SME", <<>>>>,
                <<"SME", <<0>>>>, <<"SME", <<10000000>>>>, <<"SME", <<50000000>>>>,
                <<"RETAIL", <<>>>> }

ProbeLoan(pd, lgd, maturity, kind) == Loan("P", pd, lgd, 1000000, maturity, kind[1], kind[2])

\* two loans that differ at most in pd, the lower pd first
ProbePairs ==
    { <<ProbeLoan(pds[1], lgd, m, kind), ProbeLoan(pds[2], lgd, m, kind)>> :
        pds \in {p \in ProbePds \X ProbePds : p[1] <= p[2]},
        lgd \in ProbeLgds, m \in ProbeMaturities, kind \in ProbeKinds }

\* turnover: absent, 0, below and at the 5e6 clamp, 1e7, 4.9e7, the 5e7 cap, above it
ProbeTurnovers == {<<>>, <<0>>, <<4000000>>, <<5000000>>, <<10000000>>, <<49000000>>,
                   <<50000000>>, <<60000000>>}

\* two loans that differ only in exposure type, the SME loan first
ProbeTypePairs ==
    { <<ProbeLoan(pd, 45000000, 250, <<"SME", t>>),
        ProbeLoan(pd, 45000000, 250, <<"CORPORATE", t>>)>> :
        pd \in ProbePds, t \in ProbeTurnovers }

\* a loan, taken twice, with pd = 2.9272443e-6: there b is the value nearest to
\* 2/3 and 1.5 * b rounds to 1.0
ProbeSingular ==
    { <<WithPd(ProbeLoan(292, lgd, m, <<"CORPORATE", <<>>>>), 292, 72443),
        WithPd(ProbeLoan(292, lgd, m, <<"CORPORATE", <<>>>>), 292, 72443)>> :
        lgd \in ProbeLgds, m \in ProbeMaturities }

Probes == ProbePairs \cup ProbeTypePairs \cup ProbeSingular

InitFormulas ==
    /\ config = ConfigFile(FALSE, FALSE, "absent", <<>>)
    /\ engine = [constructed |-> FALSE, scenarios |-> <<>>]
    /\ config_reads = 0
    /\ stress_engine = <<>>
    /\ portfolio = <<>>
    /\ resp = NoResponse
    /\ probe \in Probes
    /\ calc = [fn |-> "none", out |-> <<>>]
    /\ calls = 0
    /\ threads = <<>>

Calc(fn, out1, out2) == [fn |-> fn, out |-> <<out1, out2>>]

EvalCorrelation ==
    /\ calc.fn = "none"
    /\ calc' = Calc("calculate_asset_correlation",
                    calculate_asset_correlation(probe[1]), calculate_asset_correlation(probe[2]))
    /\ UNCHANGED <<config, engine, config_reads, stress_engine, portfolio, resp, probe, calls, threads>>

EvalCapital ==
    /\ calc.fn = "none"
    /\ calc' = Calc("vasicek_model_capital",
                    vasicek_model_capital(probe[1]), vasicek_model_capital(probe[2]))
    /\ UNCHANGED <<config, engine, config_reads, stress_engine, portfolio, resp, probe, calls, threads>>

EvalRwa ==
    /\ calc.fn = "none"
    /\ calc' = Calc("calculate_rwa", calculate_rwa(probe[1]), calculate_rwa(probe[2]))
    /\ UNCHANGED <<config, engine, config_reads, stress_engine, portfolio, resp, probe, calls, threads>>

EvalExpectedLoss ==
    /\ calc.fn = "none"
    /\ calc' = Calc("calculate_expected_loss",
                    calculate_expected_loss(probe[1]), calculate_expected_loss(probe[2]))
    /\ UNCHANGED <<config, engine, config_reads, stress_engine, portfolio, resp, probe, calls, threads>>

NextFormulas ==
    \/ EvalCorrelation
    \/ EvalCapital
    \/ EvalRwa
    \/ EvalExpectedLoss

SpecFormulas == InitFormulas /\ [][NextFormulas]_vars

----------------------------------------------------------------------------
(* Chained stress: the portfolio apply_stress returned is its next input *)

\* apply_stress was called on the portfolio and returned
Stressed == resp.op = "apply_stress" /\ resp.status = "ok"

MaxChain == 3

\* ids of the loans of a portfolio tell the fixtures apart; chained portfolios
\* start from one loan at pd 0, 0.02 or 1, or from two loans
ChainPortfolios ==
    {<<LoanAt(1, pd)>> : pd \in {0, 2000000, One}}
    \cup {<<LoanAt(1, 2000000), LoanAt(2, 99950000)>>}

\* no file (the three defaults), and a file with mild (0.5) and recovery (-1.0)
ChainConfigs ==
    { ConfigFile(FALSE, FALSE, "absent", <<>>),
      ConfigFile(TRUE, TRUE, "scenarios_mapping",
                 <<GoodEntry("mild", 500), GoodEntry("recovery", -1000)>>) }

\* the engine is constructed, no call is under way
InitChain ==
    /\ config \in ChainConfigs
    /\ engine = [constructed |-> TRUE, scenarios |-> load_scenarios(config)]
    /\ config_reads = IF config.exists THEN 1 ELSE 0
    /\ stress_engine = <<>>
    /\ portfolio \in ChainPortfolios
    /\ resp = NoResponse
    /\ probe = <<>>
    /\ calc = [fn |-> "none", out |-> <<>>]
    /\ calls = 0
    /\ threads = <<>>

\* the caller hands the returned portfolio to the next apply_stress
ChainStress ==
    /\ Stressed
    /\ calls < MaxChain
    /\ portfolio' = resp.loans
    /\ resp' = NoResponse
    /\ calls' = calls + 1
    /\ UNCHANGED <<config, engine, config_reads, stress_engine, probe, calc, threads>>

NextChain ==
    \/ ApplyStress
    \/ ChainStress

SpecChain == InitChain /\ [][NextChain]_vars

----------------------------------------------------------------------------
(* Concurrent requests: the endpoints are plain functions, which the server   *)
(* runs on worker threads, and callers of one engine may call it concurrently. *)
(* Each thread takes one request or call; a step is one read of a shared      *)
(* variable or one turn of the loop of apply_stress.                          *)

NThreads == 2

ConcurrentPortfolios == {<<LoanAt(1, 2000000)>>, <<LoanAt(1, 99950000), LoanAt(2, 0)>>}

ConcurrentNames == {"baseline", "adverse", "nonexistent"}

\* no file (the three defaults), and scenarios: {} (an empty catalog)
ConcurrentConfigs ==
    { ConfigFile(FALSE, FALSE, "absent", <<>>),
      ConfigFile(TRUE, TRUE, "scenarios_mapping", <<>>) }

\* a thread: the request or call it handles, where it stands, its arguments
\* (loans, scenario_name, sensitivity), its locals (scenario, new_loans) and
\* what it returned
Thread(op, pc, loans, scenario_name, sensitivity, scenario, new_loans, result) ==
    [op |-> op, pc |-> pc, loans |-> loans, scenario_name |-> scenario_name,
     sensitivity |-> sensitivity, scenario |-> scenario, new_loans |-> new_loans,
     result |-> result]

IdleThread == Thread("none", "idle", <<>>, "", 0, <<>>, <<>>, NoResponse)

\* the thread with its result
Done(th, result) == [th EXCEPT !.pc = "done", !.result = result]

InitConcurrent ==
    /\ config \in ConcurrentConfigs
    /\ engine = [constructed |-> TRUE, scenarios |-> load_scenarios(config)]
    /\ config_reads = IF config.exists THEN 1 ELSE 0
    /\ stress_engine = <<>>
    /\ portfolio = <<>>
    /\ resp = NoResponse
    /\ probe = <<>>
    /\ calc = [fn |-> "none", out |-> <<>>]
    /\ calls = 0
    /\ threads = [t \in 1..NThreads |-> IdleThread]

\* a POST /assess/regulatory request arrives with its own portfolio
ReceiveAssess ==
    /\ \E t \in 1..NThreads, loans \in ConcurrentPortfolios :
         /\ threads[t].pc = "idle"
         /\ threads' = [threads EXCEPT ![t] =
                          Thread("assess", "start", loans, "", 0, <<>>, <<>>, NoResponse)]
    /\ UNCHANGED <<config, engine, config_reads, stress_engine, portfolio, resp, probe, calc, calls>>

\* a POST /assess/stress-test request arrives with its own portfolio
ReceiveStressTest ==
    /\ \E t \in 1..NThreads, loans \in ConcurrentPortfolios, scenario \in ConcurrentNames :
         /\ threads[t].pc = "idle"
         /\ threads' = [threads EXCEPT ![t] =
                          Thread("stress_test", "start", loans, scenario, 1000000, <<>>, <<>>,
                                 NoResponse)]
    /\ UNCHANGED <<config, engine, config_reads, stress_engine, portfolio, resp, probe, calc, calls>>

\* a caller enters engine.apply_stress(portfolio, scenario_name)
EnterApplyStress ==
    /\ \E t \in 1..NThreads, loans \in ConcurrentPortfolios, scenario_name \in ConcurrentNames :
         /\ threads[t].pc = "idle"
         /\ threads' = [threads EXCEPT ![t] =
                          Thread("apply_stress", "start", loans, scenario_name, 1000000, <<>>,
                                 <<>>, NoResponse)]
    /\ UNCHANGED <<config, engine, config_reads, stress_engine, portfolio, resp, probe, calc, calls>>

\* assess_regulatory_capital: it reads its portfolio only
AssessHandler ==
    /\ \E t \in 1..NThreads :
         /\ threads[t].op = "assess" /\ threads[t].pc = "start"
         /\ threads' = [threads EXCEPT ![t] = Done(@, assess_regulatory_capital(@.loans))]
    /\ UNCHANGED <<config, engine, config_reads, stress_engine, portfolio, resp, probe, calc, calls>>

\* run_stress_test: it reads the module-level stress_engine
StressTestHandler ==
    /\ \E t \in 1..NThreads :
         /\ threads[t].op = "stress_test" /\ threads[t].pc = "start"
         /\ threads' = [threads EXCEPT ![t] =
                          Done(@, run_stress_test(stress_engine, @.loans, @.scenario_name))]
    /\ UNCHANGED <<config, engine, config_reads, stress_engine, portfolio, resp, probe, calc, calls>>

\* the thread after the lookup of its scenario in the catalog as it is now
Resolved(th, scenarios) ==
    IF ResolveRaises(scenarios, th.scenario_name)
    THEN Done(th, StressResponse(th.scenario_name, th.sensitivity,
                                 [raised |-> TRUE, loans |-> <<>>]))
    ELSE IF Resolve(scenarios, th.scenario_name).shock_factor = 0
    THEN Done(th, StressResponse(th.scenario_name, th.sensitivity,
                                 [raised |-> FALSE, loans |-> th.loans]))
    ELSE [th EXCEPT !.pc = "loop", !.scenario = <<Resolve(scenarios, th.scenario_name)>>]

\* a lookup that also stores the fallback scenario in the catalog under the
\* unknown name
ResolveScenarioCaching ==
    /\ \E t \in 1..NThreads :
         /\ threads[t].op = "apply_stress" /\ threads[t].pc = "start"
         /\ threads' = [threads EXCEPT ![t] = Resolved(@, engine.scenarios)]
         /\ engine' =
              IF threads'[t].pc = "loop"
                 /\ threads[t].scenario_name \notin ScenarioNames(engine.scenarios)
              THEN [engine EXCEPT !.scenarios =
                      Append(@, [threads'[t].scenario[1]
                                    EXCEPT !.name = threads[t].scenario_name])]
              ELSE engine
    /\ UNCHANGED <<config, config_reads, stress_engine, portfolio, resp, probe, calc, calls>>

\* apply_stress, lines 46-53: the scenario is looked up in self.scenarios
ResolveScenario ==
    /\ \E t \in 1..NThreads :
         /\ threads[t].op = "apply_stress" /\ threads[t].pc = "start"
         /\ threads' = [threads EXCEPT ![t] = Resolved(@, engine.scenarios)]
    /\ UNCHANGED <<config, engine, config_reads, stress_engine, portfolio, resp, probe, calc, calls>>

\* apply_stress, lines 56-66: one turn of the loop
StressNextLoan ==
    /\ \E t \in 1..NThreads :
         /\ threads[t].pc = "loop" /\ Len(threads[t].new_loans) < Len(threads[t].loans)
         /\ threads' = [threads EXCEPT ![t].new_loans =
                          Append(@, StressLoan(threads[t].loans[Len(@) + 1],
                                               threads[t].scenario[1].shock_factor,
                                               threads[t].sensitivity))]
    /\ UNCHANGED <<config, engine, config_reads, stress_engine, portfolio, resp, probe, calc, calls>>

\* apply_stress, line 68: return Portfolio(loans=new_loans)
ReturnPortfolio ==
    /\ \E t \in 1..NThreads :
         /\ threads[t].pc = "loop" /\ Len(threads[t].new_loans) = Len(threads[t].loans)
         /\ threads' = [threads EXCEPT ![t] =
                          Done(@, StressResponse(@.scenario_name, @.sensitivity,
                                                 [raised |-> FALSE, loans |-> @.new_loans]))]
    /\ UNCHANGED <<config, engine, config_reads, stress_engine, portfolio, resp, probe, calc, calls>>

NextConcurrent ==
    \/ ReceiveAssess
    \/ ReceiveStressTest
    \/ EnterApplyStress
    \/ AssessHandler
    \/ StressTestHandler
    \/ ResolveScenario
    \/ StressNextLoan
    \/ ReturnPortfolio

SpecConcurrent == InitConcurrent /\ [][NextConcurrent]_vars

----------------------------------------------------------------------------
(* Properties of the stress engine and the API, over Spec *)

\* the shock factor of the scenario the returned call worked with
ResolvedShock == Resolve(engine.scenarios, resp.scenario_name).shock_factor

C2_UnknownNameFallsBackToAdverse ==
    (resp.op = "apply_stress" /\ resp.scenario_name \notin ScenarioNames(engine.scenarios))
        => /\ resp.status = "ok"
           /\ resp.loans =
                apply_stress(engine.scenarios, portfolio, "adverse", resp.sensitivity).loans

\* C3 as stated: apply_stress(portfolio, "baseline") returns a portfolio identical
\* to its input, for every portfolio and every sensitivity.
C3_BaselineIsIdentity ==
    (resp.op = "apply_stress" /\ resp.scenario_name = "baseline")
        => resp.status = "ok" /\ resp.loans = portfolio

\* C4 as stated: a stress-test request completes with the baseline result, the
\* stressed result and capital_impact = their difference in capital
\* requirement; it never ends in an error response.
C4_StressTestCompletes ==
    resp.op = "stress_test"
        => /\ resp.status = "HTTP_200"
           /\ resp.metrics = compute_portfolio_metrics(portfolio)
           /\ resp.capital_impact =
                resp.stressed_metrics.capital_requirement - resp.metrics.capital_requirement

\* the configuration is absent, unreadable or malformed, an empty scenarios
\* mapping included
Malformed(cfg) ==
    \/ ~cfg.exists
    \/ LoadRaises(cfg)
    \/ (cfg.kind = "scenarios_mapping" /\ Len(cfg.entries) = 0)

\* C5 as stated: constructing the engine never raises, and when the
\* configuration is absent, unreadable or malformed the catalog is exactly the
\* three built-in defaults.
C5_MalformedConfigGivesDefaults ==
    (engine.constructed /\ Malformed(config)) => engine.scenarios = default_scenarios

\* C6 as stated: after construction, whatever the configuration contained, the
\* catalog holds baseline, adverse and severely_adverse with shock factors 0.0,
\* 1.5 and 3.0.
C6_CatalogHoldsTheThreeDefaults ==
    engine.constructed
        => \A d \in 1..Len(default_scenarios) :
              \E i \in 1..Len(engine.scenarios) :
                 /\ engine.scenarios[i].name = default_scenarios[d].name
                 /\ engine.scenarios[i].shock_factor = default_scenarios[d].shock_factor

\* C7: for a portfolio with no loans, or with total exposure 0, the aggregation
\* returns without raising and every field of its result is 0.
C7_EmptyPortfolioGivesZeros ==
    (resp.op = "assess" /\ (Len(portfolio) = 0 \/ total_exposure(portfolio) = 0))
        => /\ resp.status = "HTTP_200"
           /\ ~resp.metrics.raised
           /\ resp.metrics.total_exposure = 0
           /\ resp.metrics.total_expected_loss = 0
           /\ resp.metrics.total_rwa = 0
           /\ resp.metrics.capital_requirement = 0
           /\ resp.metrics.average_pd = 0

C7_Witness ==
    /\ resp.op = "assess" /\ Len(portfolio) = 0
    /\ resp.status = "HTTP_200" /\ resp.metrics = ZeroResult

\* the sum of f[i] over the indices i in S, taken in no particular order
RECURSIVE SumOver(_, _)
SumOver(f, S) ==
    IF S = {} THEN 0
    ELSE LET i == CHOOSE j \in S : TRUE IN f[i] + SumOver(f, S \ {i})

\* every ordering of the loans
Orderings(loans) ==
    { [i \in 1..Len(loans) |-> loans[f[i]]] :
        f \in {g \in [1..Len(loans) -> 1..Len(loans)] :
                 \A i, j \in 1..Len(loans) : g[i] = g[j] => i = j} }

\* C12 as stated: for a portfolio of positive total exposure
\* compute_portfolio_metrics returns total_exposure = the sum of ead,
\* total_expected_loss = the sum of pd * lgd * ead, total_rwa = the sum of
\* K * 12.5 * ead, capital_requirement = total_rwa * 0.08 and average_pd = the
\* unweighted mean of pd, and returns the same values for every ordering of the loans.
C12_MetricsAreTheSums ==
    (resp.op = "assess" /\ total_exposure(portfolio) > 0)
        => /\ resp.status = "HTTP_200"
           /\ resp.metrics.total_exposure =
                  SumOver([i \in 1..Len(portfolio) |-> portfolio[i].ead], 1..Len(portfolio))
           /\ resp.metrics.total_expected_loss =
                  SumOver([i \in 1..Len(portfolio) |-> calculate_expected_loss(portfolio[i])],
                          1..Len(portfolio))
           /\ resp.metrics.total_rwa =
                  SumOver([i \in 1..Len(portfolio) |-> calculate_rwa(portfolio[i]).value],
                          1..Len(portfolio))
           /\ resp.metrics.capital_requirement * 100 <= resp.metrics.total_rwa * 8
           /\ resp.metrics.total_rwa * 8 < (resp.metrics.capital_requirement + 1) * 100
           /\ resp.metrics.average_pd * Len(portfolio) <=
                  SumOver([i \in 1..Len(portfolio) |-> portfolio[i].pd], 1..Len(portfolio))
           /\ SumOver([i \in 1..Len(portfolio) |-> portfolio[i].pd], 1..Len(portfolio))
                  < (resp.metrics.average_pd + 1) * Len(portfolio)
           /\ \A p \in Orderings(portfolio) : compute_portfolio_metrics(p) = resp.metrics

\* loan b is loan a in every field but pd
SameButPd(a, b) ==
    /\ b.id = a.id /\ b.lgd = a.lgd /\ b.ead = a.ead /\ b.maturity = a.maturity
    /\ b.exposure_type = a.exposure_type /\ b.turnover = a.turnover

\* C13: a call of apply_stress leaves the input portfolio and its loans as they
\* were; when it returns, the returned portfolio has the loans of the input in
\* the same number and order, each equal to its input loan in id, lgd, ead,
\* maturity, exposure_type and turnover, and the same total exposure.
C13_ApplyStressChangesOnlyPd ==
    [][resp'.op = "apply_stress"
          => /\ portfolio' = portfolio
             /\ resp'.status = "ok"
                   => /\ Len(resp'.loans) = Len(portfolio)
                      /\ \A i \in 1..Len(portfolio) : SameButPd(portfolio[i], resp'.loans[i])
                      /\ total_exposure(resp'.loans) = total_exposure(portfolio)]_vars

C13_Witness ==
    /\ Stressed /\ Len(portfolio) = 2
    /\ resp.loans[1].pd # portfolio[1].pd /\ resp.loans[2].pd # portfolio[2].pd
    /\ SameButPd(portfolio[1], resp.loans[1]) /\ SameButPd(portfolio[2], resp.loans[2])
    /\ total_exposure(resp.loans) = 1500000

\* C16: the configuration file, when there is one, is read exactly once, by the
\* construction of the engine and by no other step; a call of apply_stress,
\* whatever its scenario name and sensitivity and whatever calls came before,
\* reads nothing and leaves the catalog of the engine as the construction made it.
C16_ConfigReadOnceAtConstruction ==
    /\ [](config_reads = IF engine.constructed /\ config.exists THEN 1 ELSE 0)
    /\ [](engine.constructed => engine.scenarios = load_scenarios(config))
    /\ [][/\ config_reads' # config_reads => ~engine.constructed /\ engine'.constructed
          /\ resp'.op = "apply_stress"
                => config_reads' = config_reads /\ engine'.scenarios = engine.scenarios]_vars

C16_Witness ==
    /\ Stressed /\ resp.scenario_name = "nonexistent"
    /\ config.exists /\ config.readable /\ Len(config.entries) = 4
    /\ config_reads = 1
    /\ engine.scenarios = load_scenarios(config) /\ Len(engine.scenarios) = 4

----------------------------------------------------------------------------
(* Properties of the regulatory formulas, over SpecFormulas *)

\* C8: vasicek_model_capital is exactly 0 for a loan with pd = 0 or pd >= 1,
\* whatever its other fields, and so is calculate_rwa.
C8_NoCapitalAtPdZeroOrOne ==
    calc.fn \in {"vasicek_model_capital", "calculate_rwa"}
        => \A j \in 1..2 :
              (probe[j].pd = 0 \/ probe[j].pd >= One)
                  => ~calc.out[j].raised /\ calc.out[j].value = 0

C8_Witness ==
    /\ calc.fn = "calculate_rwa"
    /\ probe[1].pd = 0 /\ probe[2].pd = One /\ probe[1].lgd = One
    /\ calc.out[1].value = 0 /\ calc.out[2].value = 0

\* C9 as stated: for two loans that differ only in pd, pd1 < pd2 < 1, the
\* capital of the loan with pd2 is at least the capital of the loan with pd1,
\* over the whole range 0 <= pd < 1.
C9_CapitalNeverDecreasesWithPd ==
    (calc.fn = "vasicek_model_capital" /\ probe[1].pd < probe[2].pd /\ probe[2].pd < One)
        => /\ ~calc.out[1].raised /\ ~calc.out[2].raised
           /\ calc.out[2].value >= calc.out[1].value

\* C9, corrected: for two loans that differ only in pd, with
\* 1e-4 <= pd1 < pd2 <= 0.25, pd2 - pd1 >= 1e-6 and a maturity of at most 5
\* years, vasicek_model_capital does not raise and the capital of the loan with
\* pd2 is at least the capital of the loan with pd1.
C9_CapitalNeverDecreasesInRange ==
    (/\ calc.fn = "vasicek_model_capital"
     /\ 10000 <= probe[1].pd /\ probe[2].pd - probe[1].pd >= 100 /\ probe[2].pd <= 25000000
     /\ probe[1].maturity <= 500)
        => /\ ~calc.out[1].raised /\ ~calc.out[2].raised
           /\ calc.out[2].value >= calc.out[1].value

C9_Witness ==
    /\ calc.fn = "vasicek_model_capital"
    /\ probe[1].pd = 500000 /\ probe[2].pd = 5000000
    /\ probe[1].lgd = 45000000 /\ probe[1].maturity = 250
    /\ calc.out[2].value > calc.out[1].value /\ calc.out[1].value > 0

\* C10 as stated: for a fixed exposure type and turnover and 0 < pd1 < pd2 < 1,
\* the correlation at pd1 is strictly greater than the correlation at pd2,
\* also when both lie below the 1e-7 floor.
C10_CorrelationStrictlyDecreases ==
    (/\ calc.fn = "calculate_asset_correlation"
     /\ 0 < probe[1].pd /\ probe[1].pd < probe[2].pd /\ probe[2].pd < One)
        => calc.out[1] > calc.out[2]

\* C10, corrected: for a fixed exposure type and turnover and 0 < pd1 < pd2 < 1
\* the correlation at pd1 is at least the correlation at pd2, and it is strictly
\* greater when 1e-7 <= pd1, pd2 <= 0.25 and pd2 - pd1 >= 1e-7.
C10_CorrelationDecreases ==
    (/\ calc.fn = "calculate_asset_correlation"
     /\ 0 < probe[1].pd /\ probe[1].pd < probe[2].pd /\ probe[2].pd < One)
        => /\ calc.out[1] >= calc.out[2]
           /\ (10 <= probe[1].pd /\ probe[2].pd <= 25000000 /\ probe[2].pd - probe[1].pd >= 10)
                 => calc.out[1] > calc.out[2]

C10_Witness ==
    /\ calc.fn = "calculate_asset_correlation"
    /\ probe[1].pd = 10 /\ probe[2].pd = 25000000
    /\ probe[1].exposure_type = "SME" /\ probe[1].turnover = <<10000000>>
    /\ calc.out[1] > calc.out[2]

\* the probe is an SME loan and the same loan as CORPORATE
TypePair == probe[1].exposure_type = "SME"
            /\ probe[2] = [probe[1] EXCEPT !.exposure_type = "CORPORATE"]

C14_CapitalNeverRaises ==
    calc.fn = "vasicek_model_capital"
        => \A j \in 1..2 :
              LoanValid(probe[j])
                  => /\ ~calc.out[j].raised
                     /\ calc.out[j].value >= 0

\* C15: for every validated loan, of every exposure type, with pd in [0, 1] and
\* a turnover that is absent or at least 0, calculate_asset_correlation is at
\* least 0 and below 1.
C15_CorrelationInUnitInterval ==
    calc.fn = "calculate_asset_correlation"
        => \A j \in 1..2 :
              LoanValid(probe[j]) => 0 <= calc.out[j] /\ calc.out[j] < One

C15_Witness ==
    /\ calc.fn = "calculate_asset_correlation" /\ TypePair
    /\ probe[1].pd = One /\ probe[1].turnover = <<0>>
    /\ calc.out[1] = 8000000 /\ calc.out[2] = 12000000

\* C18: every loan apply_stress returns, for every scenario and every
\* sensitivity (positive, zero or negative) and after any number of calls that
\* take the returned portfolio as the next input, still has pd in [0, 1], lgd in
\* [0, 1], ead > 0 and maturity > 0.
C18_StressedLoansStayValid ==
    Stressed => \A i \in 1..Len(resp.loans) : LoanValid(resp.loans[i])

C18_Witness ==
    /\ Stressed /\ calls >= 2 /\ resp.sensitivity < 0
    /\ Len(resp.loans) = 2
    /\ resp.loans[1].pd # portfolio[1].pd
    /\ LoanValid(resp.loans[1]) /\ LoanValid(resp.loans[2])

----------------------------------------------------------------------------
(* Properties of concurrent requests, over SpecConcurrent *)

\* what the request or call of a thread returns when it runs alone, on an
\* engine constructed from the same configuration
Alone(th) ==
    CASE th.op = "assess" -> assess_regulatory_capital(th.loans)
      [] th.op = "stress_test" -> run_stress_test(<<>>, th.loans, th.scenario_name)
      [] OTHER -> StressResponse(th.scenario_name, th.sensitivity,
                      apply_stress(load_scenarios(config), th.loans, th.scenario_name,
                                   th.sensitivity))

\* C17: when assessment requests, stress-test requests and calls of the engine
\* run concurrently, in any interleaving of their steps, each returns what it
\* returns when run alone on its portfolio and scenario; and no step writes the
\* scenario catalog, the module-level stress_engine or the portfolio of a
\* request under way.
C17_ConcurrentRequestsAreIndependent ==
    /\ [](\A t \in DOMAIN threads :
             threads[t].pc = "done" => threads[t].result = Alone(threads[t]))
    /\ [][/\ engine' = engine
          /\ stress_engine' = stress_engine
          /\ \A t \in DOMAIN threads :
                threads[t].pc # "idle" => threads'[t].loans = threads[t].loans]_vars

C17_Witness ==
    /\ threads # <<>>
    /\ threads[1].op = "apply_stress" /\ threads[1].pc = "loop"
    /\ Len(threads[1].loans) = 2 /\ Len(threads[1].new_loans) = 1
    /\ threads[2].op = "assess" /\ threads[2].pc = "done"
    /\ threads[2].result.status = "HTTP_200"
    /\ threads[2].result = Alone(threads[2])

====
